---- MODULE Spec2Model ----
(***************************************************************************)
(* A model of the LMCache TTL-heuristics utilities:                        *)
(*   - the storage backends of src/src/tiered_caching.py (InMemoryBackend, *)
(*     LocalDiskBackend, RemoteBackend), each a map with lazy expiry;      *)
(*   - the tiered cache that orders those backends (get with promotion,    *)
(*     set and delete over every tier);                                    *)
(*   - compute_ttl and select_backend of src/src/caching_heuristics.py;    *)
(*   - MultiTierCache.generate_and_manage and its reconciliation step      *)
(*     _apply_heuristics_and_move, against a controller whose calls may    *)
(*     fail or answer anything.                                            *)
(*                                                                         *)
(* Time is an integer clock `now` (time.time()).  Python's None is the     *)
(* string "None" where values are strings, and the empty tuple <<>> where  *)
(* the value is a number: an optional number n is <<n>>.                   *)
(***************************************************************************)
EXTENDS Integers, Sequences, FiniteSets, TLC

VARIABLES
    now,        \* time.time(), in whole seconds
    store,      \* InMemoryBackend.store: key -> (value, expire_time)
    files,      \* LocalDiskBackend: the files <directory>/<key>.pkl, key -> pickled (value, expire)
    redis,      \* RemoteBackend.client: namespaced key -> (blob, expiry set by SETEX)
    focus,      \* the backend object a behaviour of direct calls uses ("tiers": the tiered cache)
    lastSet,    \* history: per key, the entry written by the most recent direct set
    lastOp,     \* history: the operation that ran last, its arguments and its result
    env,        \* os.environ: the value of LMCACHE_DISABLE_OFFLOAD ("unset" when absent)
    heurIn,     \* the arguments of the heuristic call under test
    heurOut,    \* history: the heuristic function called last and what it did
    llm,        \* MultiTierCache.llm
    access_count, \* MultiTierCache.access_count: hash(prompt) -> count
    call,       \* history: the last generate_and_manage call, its controller calls and result
    passed,     \* history: prompt -> the generate_and_manage calls that passed the LLM check
    threads,    \* the callers that run in parallel on one backend: where each is in its call
    PROC,       \* cache_controller._PROC: the tracked controller process (its pid), or None
    alive,      \* the pids of the controller processes that are running
    spawns,     \* the number of processes subprocess.Popen has started
    killed,     \* history: the processes stop_controller sent kill() to
    ctlOp,      \* history: the last start_controller / stop_controller call and its result
    idx,        \* RemoteTTLStore.r: sha256 key -> the meta record stored as JSON
    blobs,      \* RemoteTTLStore: the files under root, path -> what was written
    ttlOp,      \* history: the last RemoteTTLStore call and its result
    lastPut,    \* history: per logical key, the last put and whether a delete followed it
    clock       \* time.time() of the RemoteTTLStore calls, in ticks of 1/TicksPerSecond s

cacheVars == <<now, store, files, redis, focus, lastSet, lastOp>>

heurVars == <<heurIn, heurOut>>

reconVars == <<llm, access_count, call, passed>>

concVars == <<threads>>

ctlVars == <<PROC, alive, spawns, killed, ctlOp>>

ttlVars == <<idx, blobs, ttlOp, lastPut, clock>>

vars == <<now, store, files, redis, focus, lastSet, lastOp, env, heurIn, heurOut,
          llm, access_count, call, passed, threads, PROC, alive, spawns, killed, ctlOp,
          idx, blobs, ttlOp, lastPut, clock>>

-----------------------------------------------------------------------------
(* Bounds of the model *)

\* the clock stops advancing here
MaxTime == 3

\* the largest ttl a caller passes to a backend's set
MaxTtl == 2

Keys == {"k1", "k2"}

Values == {"v1", "v2"}

Backends == {"mem", "disk", "remote"}

None == "None"

NoNum == <<>>

Some(n) == <<n>>

\* the ttl arguments of a direct set: no ttl (None), or 0..MaxTtl
TtlArgs == {NoNum} \cup {Some(n) : n \in 0..MaxTtl}

\* Python truthiness of an optional number: `if ttl` is false for None and for 0
Truthy(ttl) == ttl # NoNum /\ ttl[1] # 0

-----------------------------------------------------------------------------
(* InMemoryBackend: a dict key -> (value, expire) *)

\* the mutant sweeps: a get removes every entry that has expired
InMemoryBackend_get_Sweep(st, key, t) ==
    LET live == {k \in DOMAIN st : st[k].expire = NoNum \/ st[k].expire[1] > t}
    IN  [ret |-> IF key \in live THEN st[key].val ELSE None,
         st |-> [k \in live |-> st[k]]]

\* the mutant reads self.store[key] without the membership test: KeyError for
\* a missing key
InMemoryBackend_get_NoTest(st, key, t) ==
    IF key \notin DOMAIN st
    THEN [ret |-> "KeyError", st |-> st]
    ELSE IF st[key].expire = NoNum \/ st[key].expire[1] > t
         THEN [ret |-> st[key].val, st |-> st]
         ELSE [ret |-> None, st |-> [k \in DOMAIN st \ {key} |-> st[k]]]

\* the mutant reads `expire >= time.time()`
InMemoryBackend_get_Ge(st, key, t) ==
    IF key \in DOMAIN st
    THEN IF st[key].expire = NoNum \/ st[key].expire[1] >= t
         THEN [ret |-> st[key].val, st |-> st]
         ELSE [ret |-> None, st |-> [k \in DOMAIN st \ {key} |-> st[k]]]
    ELSE [ret |-> None, st |-> st]

InMemoryBackend_get(st, key, t) ==
    IF key \in DOMAIN st
    THEN IF st[key].expire = NoNum \/ st[key].expire[1] > t
         THEN [ret |-> st[key].val, st |-> st]
         ELSE [ret |-> None, st |-> [k \in DOMAIN st \ {key} |-> st[k]]]
    ELSE [ret |-> None, st |-> st]

\* the mutant updates the value only: without a ttl the entry keeps the expiry
\* it had
InMemoryBackend_set_KeepExpiry(st, key, value, ttl, t) ==
    LET expire == IF Truthy(ttl) THEN Some(t + ttl[1])
                  ELSE IF key \in DOMAIN st THEN st[key].expire ELSE NoNum
    IN  [k \in DOMAIN st \cup {key} |->
            IF k = key THEN [val |-> value, expire |-> expire] ELSE st[k]]

\* the mutant forgets to add the ttl: expire = time.time()
InMemoryBackend_set_Now(st, key, value, ttl, t) ==
    LET expire == IF Truthy(ttl) THEN Some(t) ELSE NoNum
    IN  [k \in DOMAIN st \cup {key} |->
            IF k = key THEN [val |-> value, expire |-> expire] ELSE st[k]]

\* expire = time.time() + ttl if ttl else None
InMemoryBackend_set(st, key, value, ttl, t) ==
    LET expire == IF Truthy(ttl) THEN Some(t + ttl[1]) ELSE NoNum
    IN  [k \in DOMAIN st \cup {key} |->
            IF k = key THEN [val |-> value, expire |-> expire] ELSE st[k]]

InMemoryBackend_delete(st, key) == [k \in DOMAIN st \ {key} |-> st[k]]

-----------------------------------------------------------------------------
(* pickle: dumps wraps the object, loads unwraps it *)

pickle_dumps(obj) == [pickled |-> obj]

pickle_loads(blob) == blob.pickled

-----------------------------------------------------------------------------
(* LocalDiskBackend: one file <key>.pkl per key, holding pickle((value, expire)) *)

LocalDiskBackend_get(fs, key, t) ==
    IF key \notin DOMAIN fs
    THEN [ret |-> None, st |-> fs]
    ELSE LET entry == pickle_loads(fs[key])
         IN  IF entry.expire = NoNum \/ entry.expire[1] > t
             THEN [ret |-> entry.val, st |-> fs]
             ELSE [ret |-> None, st |-> [k \in DOMAIN fs \ {key} |-> fs[k]]]

\* the mutant forgets to add the ttl: expire = time.time()
LocalDiskBackend_set_Now(fs, key, value, ttl, t) ==
    LET expire == IF Truthy(ttl) THEN Some(t) ELSE NoNum
    IN  [k \in DOMAIN fs \cup {key} |->
            IF k = key THEN pickle_dumps([val |-> value, expire |-> expire]) ELSE fs[k]]

LocalDiskBackend_set(fs, key, value, ttl, t) ==
    LET expire == IF Truthy(ttl) THEN Some(t + ttl[1]) ELSE NoNum
    IN  [k \in DOMAIN fs \cup {key} |->
            IF k = key THEN pickle_dumps([val |-> value, expire |-> expire]) ELSE fs[k]]

LocalDiskBackend_delete(fs, key) ==
    IF key \in DOMAIN fs THEN [k \in DOMAIN fs \ {key} |-> fs[k]] ELSE fs

-----------------------------------------------------------------------------
(* RemoteBackend over a Redis client: GET answers nil for a key whose SETEX  *)
(* time has run out, SET stores without expiry                              *)

RemoteBackend_k(key) == <<"remote_cache", key>>

redis_get(db, rk, t) ==
    IF rk \in DOMAIN db /\ (db[rk].expire = NoNum \/ db[rk].expire[1] > t)
    THEN Some(db[rk].blob)
    ELSE NoNum

RemoteBackend_get(db, key, t) ==
    LET raw == redis_get(db, RemoteBackend_k(key), t)
    IN  IF raw = NoNum
        THEN [ret |-> None, st |-> db]
        ELSE [ret |-> pickle_loads(raw[1]), st |-> db]

\* the mutant always calls client.set: the ttl is lost
RemoteBackend_set_NoTtl(db, key, value, ttl, t) ==
    LET blob == pickle_dumps(value)
        rk == RemoteBackend_k(key)
    IN  [k \in DOMAIN db \cup {rk} |->
            IF k = rk THEN [blob |-> blob, expire |-> NoNum] ELSE db[k]]

RemoteBackend_set(db, key, value, ttl, t) ==
    LET blob == pickle_dumps(value)
        rk == RemoteBackend_k(key)
    IN  [k \in DOMAIN db \cup {rk} |->
            IF k = rk
            THEN [blob |-> blob,
                  expire |-> IF Truthy(ttl) THEN Some(t + ttl[1]) ELSE NoNum]
            ELSE db[k]]

RemoteBackend_delete(db, key) ==
    [k \in DOMAIN db \ {RemoteBackend_k(key)} |-> db[k]]

-----------------------------------------------------------------------------
(* The three backends behind one interface: S is the record of their stores *)

Stores == [mem |-> store, disk |-> files, remote |-> redis]

BackendGet(b, S, key, t) ==
    LET r == CASE b = "mem" -> InMemoryBackend_get(S.mem, key, t)
               [] b = "disk" -> LocalDiskBackend_get(S.disk, key, t)
               [] b = "remote" -> RemoteBackend_get(S.remote, key, t)
    IN  [ret |-> r.ret, S |-> [S EXCEPT ![b] = r.st]]

BackendSet(b, S, key, value, ttl, t) ==
    CASE b = "mem" -> [S EXCEPT !.mem = InMemoryBackend_set(S.mem, key, value, ttl, t)]
      [] b = "disk" -> [S EXCEPT !.disk = LocalDiskBackend_set(S.disk, key, value, ttl, t)]
      [] b = "remote" -> [S EXCEPT !.remote = RemoteBackend_set(S.remote, key, value, ttl, t)]

BackendDelete(b, S, key) ==
    CASE b = "mem" -> [S EXCEPT !.mem = InMemoryBackend_delete(S.mem, key)]
      [] b = "disk" -> [S EXCEPT !.disk = LocalDiskBackend_delete(S.disk, key)]
      [] b = "remote" -> [S EXCEPT !.remote = RemoteBackend_delete(S.remote, key)]

\* whether the backend physically holds something under key
Holds(b, S, key) ==
    CASE b = "mem" -> key \in DOMAIN S.mem
      [] b = "disk" -> key \in DOMAIN S.disk
      [] b = "remote" -> RemoteBackend_k(key) \in DOMAIN S.remote

Commit(S) ==
    /\ store' = S.mem
    /\ files' = S.disk
    /\ redis' = S.remote

\* the (value, expire) pair that a backend physically holds under key
Entry(b, S, key) ==
    CASE b = "mem" -> S.mem[key]
      [] b = "disk" -> pickle_loads(S.disk[key])
      [] b = "remote" -> S.remote[RemoteBackend_k(key)]

\* the entry has an expiry and the time has reached it
Stale(entry, t) == entry.expire # NoNum /\ entry.expire[1] <= t

-----------------------------------------------------------------------------
(* caching_heuristics.py.  Floats are fixed-point numbers: a perplexity is a  *)
(* whole number, a time_variance is in tenths, alpha is in thousandths, and  *)
(* the product that compute_ttl forms is kept in thousandths of a second     *)
(* before int() truncates it.  math.log1p is a table in thousandths.         *)

Max(a, b) == IF a >= b THEN a ELSE b

Min(a, b) == IF a <= b THEN a ELSE b

\* the mutant returns val as it is
clamp_Identity(val, lo, hi) == val

\* clamp(val, lo, hi) = max(lo, min(hi, val))
clamp(val, lo, hi) == Max(lo, Min(hi, val))

Abs(x) == IF x < 0 THEN -x ELSE x

Sign(x) == IF x < 0 THEN -1 ELSE 1

\* int(): truncation toward zero of x / d, d > 0
Trunc(x, d) == Sign(x) * (Abs(x) \div d)

\* truncation toward zero of x * m / d, for 0 <= m <= d, without forming x * m
MulTrunc(x, m, d) == Sign(x) * ((Abs(x) \div d) * m + ((Abs(x) % d) * m) \div d)

\* 1000 * ln(1 + n) for n = 0, 1, 2, ...
Log1pTable == <<0, 693, 1099, 1386, 1609, 1792, 1946, 2079, 2197>>

\* math.log1p(n) answers for n > -1 and raises ValueError (math domain error)
\* for n <= -1
log1p(n) ==
    IF n <= -1 THEN [raised |-> TRUE, val |-> 0]
    ELSE [raised |-> FALSE, val |-> Log1pTable[n + 1]]

\* metadata.get(field, default) of an optional number
GetOr(opt, default) == IF opt = NoNum THEN default ELSE opt[1]

DefaultBaseTtl == 3600

DefaultMinTtl == 0

DefaultMaxTtl == 604800

\* alpha = 0.25, in thousandths
DefaultAlpha == 250

\* the perplexity above which the ttl grows: max(0.0, perplexity - 10.0)
PerplexityFloor == 10

\* gamma = 0.8, in tenths
Gamma == 8

\* compute_ttl(metadata) < 10 selects "gpu"
HotThreshold == 10

\* the mutant has no floor under the perplexity: 1.0 + (perplexity - 10.0) / 100.0
compute_ttl_NoFloor(metadata, base_ttl, min_ttl, max_ttl, alpha) ==
    LET perplexity == GetOr(metadata.perplexity, 1)
        accesses == GetOr(metadata.access_count, 0)
        time_variance == GetOr(metadata.time_variance, 0)
        lg == log1p(accesses)
        access_influence == 1000 + Trunc(alpha * lg.val, 1000)
        perplexity_factor == 100 + (perplexity - PerplexityFloor)
        volatility == 100 - Gamma * clamp(time_variance, 0, 10)
        ttl == MulTrunc(base_ttl * access_influence * perplexity_factor, volatility, 10000)
    IN  IF lg.raised
        THEN [raised |-> TRUE, val |-> 0]
        ELSE [raised |-> FALSE,
              val |-> Trunc(clamp(ttl, min_ttl * 1000, max_ttl * 1000), 1000)]

\* the mutant returns int(ttl) without clamping it
compute_ttl_NoClamp(metadata, base_ttl, min_ttl, max_ttl, alpha) ==
    LET perplexity == GetOr(metadata.perplexity, 1)
        accesses == GetOr(metadata.access_count, 0)
        time_variance == GetOr(metadata.time_variance, 0)
        lg == log1p(accesses)
        access_influence == 1000 + Trunc(alpha * lg.val, 1000)
        perplexity_factor == 100 + Max(0, perplexity - PerplexityFloor)
        volatility == 100 - Gamma * clamp(time_variance, 0, 10)
        ttl == MulTrunc(base_ttl * access_influence * perplexity_factor, volatility, 10000)
    IN  IF lg.raised
        THEN [raised |-> TRUE, val |-> 0]
        ELSE [raised |-> FALSE, val |-> Trunc(ttl, 1000)]

compute_ttl(metadata, base_ttl, min_ttl, max_ttl, alpha) ==
    LET perplexity == GetOr(metadata.perplexity, 1)
        accesses == GetOr(metadata.access_count, 0)
        time_variance == GetOr(metadata.time_variance, 0)
        lg == log1p(accesses)
        \* thousandths: 1.0 + alpha * log1p(access_count)
        access_influence == 1000 + Trunc(alpha * lg.val, 1000)
        \* hundredths: 1.0 + max(0.0, perplexity - 10.0) / 100.0
        perplexity_factor == 100 + Max(0, perplexity - PerplexityFloor)
        \* hundredths: 1.0 - gamma * clamp(time_variance, 0.0, 1.0)
        volatility == 100 - Gamma * clamp(time_variance, 0, 10)
        \* thousandths of a second
        ttl == MulTrunc(base_ttl * access_influence * perplexity_factor, volatility, 10000)
    IN  IF lg.raised
        THEN [raised |-> TRUE, val |-> 0]
        ELSE [raised |-> FALSE,
              val |-> Trunc(clamp(ttl, min_ttl * 1000, max_ttl * 1000), 1000)]

\* os.getenv("LMCACHE_DISABLE_OFFLOAD", "0")
getenv(e) == IF e = "unset" THEN "0" ELSE e

\* the mutant evaluates compute_ttl(metadata) before it reads the override
select_backend_TtlFirst(metadata, e) ==
    LET t == compute_ttl(metadata, DefaultBaseTtl, DefaultMinTtl, DefaultMaxTtl,
                         DefaultAlpha)
    IN  IF t.raised THEN "ValueError"
        ELSE IF getenv(e) = "1" THEN "gpu"
        ELSE IF t.val < HotThreshold THEN "gpu" ELSE "disk"

select_backend(metadata, e) ==
    IF getenv(e) = "1"
    THEN "gpu"
    ELSE LET t == compute_ttl(metadata, DefaultBaseTtl, DefaultMinTtl, DefaultMaxTtl,
                              DefaultAlpha)
         IN  IF t.raised THEN "ValueError"
             ELSE IF t.val < HotThreshold THEN "gpu" ELSE "disk"

-----------------------------------------------------------------------------
(* The arguments the heuristics are called with *)

\* the largest access_count drawn
MaxAccess == 3

Perplexities == {NoNum, Some(-5), Some(10), Some(110)}

AccessCounts == {NoNum, Some(-5), Some(-1)} \cup {Some(n) : n \in 0..MaxAccess}

\* tenths: -0.5, 0, 0.1, 1, 2.5
TimeVariances == {NoNum, Some(-5), Some(0), Some(1), Some(10), Some(25)}

Metadatas == [perplexity : Perplexities, access_count : AccessCounts,
              time_variance : TimeVariances]

BaseTtls == {-60, 7, DefaultBaseTtl}

\* (min_ttl, max_ttl) with min_ttl <= max_ttl
TtlRanges == {<<DefaultMinTtl, DefaultMaxTtl>>, <<5, 9>>, <<-9, -5>>, <<4000, 5000>>}

\* thousandths: -0.5, 0.25
Alphas == {-500, DefaultAlpha}

EnvValues == {"unset", "0", "1"}

\* prevEnv and prevBackend: the flag and the result of the select_backend call
\* before this one, when the call before this one was a select_backend call
NoOut == [fn |-> "none", raised |-> FALSE, ttl |-> 0, backend |-> None, env |-> "unset",
          prevEnv |-> "none", prevBackend |-> None]

HeurIdle ==
    /\ heurIn = [metadata |-> [perplexity |-> NoNum, access_count |-> NoNum,
                               time_variance |-> NoNum],
                 base_ttl |-> DefaultBaseTtl, range |-> <<DefaultMinTtl, DefaultMaxTtl>>,
                 alpha |-> DefaultAlpha]
    /\ heurOut = NoOut

-----------------------------------------------------------------------------
(* History kept for the properties, and the state before any call *)

Prompts == {"p1", "p2", "p3"}

NoLookup == [kind |-> "none", found |-> "absent", has |-> FALSE, inst |-> <<>>]

NoMetadata == [perplexity |-> NoNum, access_count |-> NoNum, time_variance |-> NoNum]

NoCall == [ran |-> FALSE, prompt |-> "none", env |-> "unset", given |-> FALSE,
           mdIn |-> NoMetadata, mdAfter |-> NoMetadata, scored |-> NoMetadata,
           outcome |-> "none", text |-> <<>>, calls |-> <<>>, reconRet |-> None,
           genR |-> "none", tokR |-> "none", lookup |-> NoLookup, moveR |-> "none"]

ReconIdle ==
    /\ llm = None
    /\ access_count = <<>>
    /\ call = NoCall
    /\ passed = [p \in Prompts |-> 0]

Threads == {"t1", "t2"}

\* a caller outside any call: line is the source line it executes next (0:
\* none), val and expire are the locals of get, at is the time.time() that set
\* read, ret is what its last call returned or raised, removedFresh is whether
\* its last get deleted an entry that was not expired
NoThread == [line |-> 0, key |-> "none", value |-> None, ttl |-> NoNum, val |-> None,
             expire |-> NoNum, at |-> 0, ret |-> None, removedFresh |-> FALSE]

ConcIdle == threads = [th \in Threads |-> NoThread]

\* how: what stop_controller found ("none": nothing tracked, "exited",
\* "terminate": ended within the timeout, "kill": killed after it)
NoCtlOp == [op |-> "none", ret |-> 0, spawned |-> FALSE, raised |-> FALSE, how |-> "none"]

\* _PROC = None, no process started; pid 0 stands for None
CtlIdle ==
    /\ PROC = 0
    /\ alive = {}
    /\ spawns = 0
    /\ killed = {}
    /\ ctlOp = NoCtlOp

LogicalKeys == {"a", "b"}

\* hashlib.sha256(s.encode("utf-8")).hexdigest(), its first eight digits
sha256(logical_key) == IF logical_key = "a" THEN "ca978112" ELSE "3e23e816"

idx_key(key) == <<"lmcache:ttl", "idx", key>>

blob_path(key) == <<"remote_blobs", key>>

\* data names the content: "txt" is UTF-8 text without NUL, "nul" is UTF-8 text
\* with a NUL in it, "bin" (bytes only) is not valid UTF-8
NoPayload == [type |-> "str", data |-> "none"]

NoPut == [put |-> FALSE, deleted |-> FALSE, replaced |-> FALSE, at |-> 0, ttl |-> 0,
          payload |-> NoPayload]

NoTtlOp == [op |-> "none", key |-> "none", ret |-> <<>>]

\* a fresh RemoteTTLStore: an empty index and an empty root directory
TtlIdle ==
    /\ idx = [k \in {idx_key(sha256(l)) : l \in LogicalKeys} |-> <<>>]
    /\ blobs = [f \in {blob_path(sha256(l)) : l \in LogicalKeys} |-> <<>>]
    /\ ttlOp = NoTtlOp
    /\ lastPut = [k \in LogicalKeys |-> NoPut]
    /\ clock = 0

NoSet == [set |-> FALSE, val |-> None, expire |-> NoNum]

\* of a direct set: arg and ttl are its value and ttl arguments, held is
\* whether the backend held the key before it, prev is the expiry that the set
\* before it stored
NoOp == [op |-> "none", b |-> "none", key |-> "none", arg |-> None, ret |-> None,
         at |-> 0, held |-> FALSE, hit |-> 0, written |-> {}, computed |-> 0,
         ttl |-> NoNum, prev |-> NoNum]

CacheInit ==
    /\ now = 0
    /\ store = <<>>
    /\ files = <<>>
    /\ redis = <<>>
    /\ lastSet = [k \in Keys |-> NoSet]
    /\ lastOp = NoOp


-----------------------------------------------------------------------------
(* Direct use of one backend.  The backends share no state, so a behaviour   *)
(* of direct calls uses one backend object, `focus`.                         *)

Get(b, key) ==
    LET r == BackendGet(b, Stores, key, now)
    IN  /\ Commit(r.S)
        /\ lastOp' = [NoOp EXCEPT !.op = "get", !.b = b, !.key = key, !.ret = r.ret,
                                  !.at = now, !.held = Holds(b, Stores, key)]
        /\ UNCHANGED <<now, focus, lastSet, env, heurVars, reconVars, concVars, ctlVars, ttlVars>>

Set(b, key, value, ttl) ==
    /\ Commit(BackendSet(b, Stores, key, value, ttl, now))
    /\ lastSet' = [lastSet EXCEPT ![key] =
                      [set |-> TRUE, val |-> value,
                       expire |-> IF ttl = NoNum \/ ttl[1] = 0 THEN NoNum
                                  ELSE Some(now + ttl[1])]]
    /\ lastOp' = [NoOp EXCEPT !.op = "set", !.b = b, !.key = key, !.at = now,
                              !.arg = value, !.ttl = ttl,
                              !.held = Holds(b, Stores, key), !.prev = lastSet[key].expire]
    /\ UNCHANGED <<now, focus, env, heurVars, reconVars, concVars, ctlVars, ttlVars>>

Delete(b, key) ==
    /\ Commit(BackendDelete(b, Stores, key))
    /\ lastOp' = [NoOp EXCEPT !.op = "delete", !.b = b, !.key = key, !.at = now,
                              !.held = Holds(b, Stores, key)]
    /\ UNCHANGED <<now, focus, lastSet, env, heurVars, reconVars, concVars, ctlVars, ttlVars>>

\* the clock advances between calls
Tick ==
    /\ now < MaxTime
    /\ now' = now + 1
    /\ lastOp' = [NoOp EXCEPT !.op = "tick", !.at = now + 1]
    /\ UNCHANGED <<store, files, redis, focus, lastSet, env, heurVars, reconVars, concVars, ctlVars, ttlVars>>

Init ==
    /\ CacheInit
    /\ focus \in Backends
    /\ env = "unset"
    /\ HeurIdle
    /\ ReconIdle
    /\ ConcIdle
    /\ CtlIdle
    /\ TtlIdle

Next ==
    \/ \E k \in Keys : Get(focus, k)
    \/ \E k \in Keys, v \in Values, ttl \in TtlArgs : Set(focus, k, v, ttl)
    \/ \E k \in Keys : Delete(focus, k)
    \/ Tick

Spec == Init /\ [][Next]_vars

-----------------------------------------------------------------------------
(* The tiered cache: an ordered list of (backend, default ttl), fastest      *)
(* first.  Tier 1 here is the index 0 of the design.                         *)

HotTtl == 1

WarmTtl == 2

ColdTtl == 3

Tiers == <<[backend |-> "mem", ttl |-> Some(HotTtl)],
           [backend |-> "disk", ttl |-> Some(WarmTtl)],
           [backend |-> "remote", ttl |-> Some(ColdTtl)]>>

NTiers == Len(Tiers)

\* probe tier i, i+1, ...: the first hit ends the probing
RECURSIVE Probe(_, _, _, _)
Probe(i, S, key, t) ==
    IF i > NTiers
    THEN [hit |-> 0, ret |-> None, S |-> S]
    ELSE LET r == BackendGet(Tiers[i].backend, S, key, t)
         IN  IF r.ret # None
             THEN [hit |-> i, ret |-> r.ret, S |-> r.S]
             ELSE Probe(i + 1, r.S, key, t)

\* set(key, value, that tier's ttl) on the tiers 1..n
RECURSIVE FanOut(_, _, _, _, _)
FanOut(n, S, key, value, t) ==
    IF n = 0
    THEN S
    ELSE FanOut(n - 1, BackendSet(Tiers[n].backend, S, key, value, Tiers[n].ttl, t),
                key, value, t)

\* compute is the value the supplied compute function returns, None when no
\* function is supplied
TieredCache_get(S, key, compute, t) ==
    LET p == Probe(1, S, key, t)
    IN  IF p.hit > 0
        THEN [ret |-> p.ret, hit |-> p.hit, written |-> 1..(p.hit - 1), computed |-> 0,
              S |-> FanOut(p.hit - 1, p.S, key, p.ret, t)]
        ELSE IF compute # None
        THEN [ret |-> compute, hit |-> 0, written |-> 1..NTiers, computed |-> 1,
              S |-> FanOut(NTiers, p.S, key, compute, t)]
        ELSE [ret |-> None, hit |-> 0, written |-> {}, computed |-> 0, S |-> p.S]

TieredCache_set(S, key, value, t) == FanOut(NTiers, S, key, value, t)

RECURSIVE TieredCache_delete(_, _, _)
TieredCache_delete(n, S, key) ==
    IF n = 0 THEN S
    ELSE TieredCache_delete(n - 1, BackendDelete(Tiers[n].backend, S, key), key)

TieredGet(key, compute) ==
    LET r == TieredCache_get(Stores, key, compute, now)
    IN  /\ Commit(r.S)
        /\ lastOp' = [NoOp EXCEPT !.op = "tget", !.key = key, !.arg = compute,
                                  !.ret = r.ret, !.at = now, !.hit = r.hit,
                                  !.written = r.written, !.computed = r.computed]
        /\ UNCHANGED <<now, focus, lastSet, env, heurVars, reconVars, concVars, ctlVars, ttlVars>>

TieredSet(key, value) ==
    /\ Commit(TieredCache_set(Stores, key, value, now))
    /\ lastOp' = [NoOp EXCEPT !.op = "tset", !.key = key, !.arg = value, !.at = now,
                              !.written = 1..NTiers]
    /\ UNCHANGED <<now, focus, lastSet, env, heurVars, reconVars, concVars, ctlVars, ttlVars>>

TieredDelete(key) ==
    /\ Commit(TieredCache_delete(NTiers, Stores, key))
    /\ lastOp' = [NoOp EXCEPT !.op = "tdelete", !.key = key, !.at = now]
    /\ UNCHANGED <<now, focus, lastSet, env, heurVars, reconVars, concVars, ctlVars, ttlVars>>

InitTiered ==
    /\ CacheInit
    /\ focus = "tiers"
    /\ env = "unset"
    /\ HeurIdle
    /\ ReconIdle
    /\ ConcIdle
    /\ CtlIdle
    /\ TtlIdle

NextTiered ==
    \/ \E k \in Keys, c \in Values \cup {None} : TieredGet(k, c)
    \/ \E k \in Keys, v \in Values : TieredSet(k, v)
    \/ \E k \in Keys : TieredDelete(k)
    \/ Tick

SpecTiered == InitTiered /\ [][NextTiered]_vars

-----------------------------------------------------------------------------
(* The heuristics under test: Init draws the arguments, the actions call *)

CallComputeTtl ==
    LET r == compute_ttl(heurIn.metadata, heurIn.base_ttl, heurIn.range[1],
                         heurIn.range[2], heurIn.alpha)
    IN  /\ heurOut' = [NoOut EXCEPT !.fn = "compute_ttl", !.raised = r.raised,
                                    !.ttl = r.val]
        /\ UNCHANGED <<heurIn, env, cacheVars, reconVars, concVars, ctlVars, ttlVars>>

\* the mutant reads the flag once and keeps it: a call that follows a
\* select_backend call uses the value that call read
CallSelectBackend_Cached ==
    LET flag == IF heurOut.fn = "select_backend" THEN heurOut.env ELSE env
        r == select_backend(heurIn.metadata, flag)
        after == heurOut.fn = "select_backend"
    IN  /\ heurOut' = [NoOut EXCEPT !.fn = "select_backend", !.raised = (r = "ValueError"),
                                    !.backend = r, !.env = flag,
                                    !.prevEnv = IF after THEN heurOut.env ELSE "none",
                                    !.prevBackend = IF after THEN heurOut.backend ELSE None]
        /\ UNCHANGED <<heurIn, env, cacheVars, reconVars, concVars, ctlVars, ttlVars>>

CallSelectBackend ==
    LET r == select_backend(heurIn.metadata, env)
        after == heurOut.fn = "select_backend"
    IN  /\ heurOut' = [NoOut EXCEPT !.fn = "select_backend", !.raised = (r = "ValueError"),
                                    !.backend = r, !.env = env,
                                    !.prevEnv = IF after THEN heurOut.env ELSE "none",
                                    !.prevBackend = IF after THEN heurOut.backend ELSE None]
        /\ UNCHANGED <<heurIn, env, cacheVars, reconVars, concVars, ctlVars, ttlVars>>

\* os.environ changes between calls
SetEnv(e) ==
    /\ env' = e
    /\ UNCHANGED <<heurIn, heurOut, cacheVars, reconVars, concVars, ctlVars, ttlVars>>

InitHeur ==
    /\ CacheInit
    /\ focus = "none"
    /\ ReconIdle
    /\ ConcIdle
    /\ CtlIdle
    /\ TtlIdle
    /\ env = "unset"
    /\ heurIn \in [metadata : Metadatas, base_ttl : BaseTtls, range : TtlRanges,
                   alpha : Alphas]
    /\ heurOut = NoOut

NextHeur ==
    \/ CallComputeTtl
    \/ CallSelectBackend
    \/ \E e \in EnvValues : SetEnv(e)

SpecHeur == InitHeur /\ [][NextHeur]_vars

-----------------------------------------------------------------------------
(* MultiTierCache: generate_and_manage and _apply_heuristics_and_move, with   *)
(* the controller's and the LLM's answers as arguments: "raise" is a call    *)
(* that fails, a lookup answers a layout of any shape                        *)

\* a generate_and_manage call per hash value is counted up to here
MaxCalls == 2

\* hash(prompt): two of the prompts have the same hash value
hash(prompt) == IF prompt = "p2" THEN "h2" ELSE "h1"

\* outputs[0].outputs[0].text of llm.generate([prompt], sampling_params)
llm_generate(prompt) == <<"text", prompt>>

\* the metadata objects a caller passes
CallerMetadatas ==
    {[perplexity |-> Some(110), access_count |-> Some(7), time_variance |-> Some(10)]}

\* metadata = {"perplexity": 10.0, "time_variance": 0.1}
DefaultMetadata ==
    [perplexity |-> Some(10), access_count |-> NoNum, time_variance |-> Some(1)]

\* the mutant tests `is not None`: the empty string passes
TruthyStr_NotNone(x) == x # None

\* Python truthiness of a string or None
TruthyStr(x) == x # None /\ x # ""

\* what controller.lookup does: it raises, or answers JSON that is no dict, or
\* a dict whose "found" is absent, false or true and whose
\* "lmcache_default_instance" is absent (has = FALSE) or a list
LookupAnswers ==
    {[NoLookup EXCEPT !.kind = "raise"], [NoLookup EXCEPT !.kind = "notdict"]}
    \cup [kind : {"dict"}, found : {"absent", "false"}, has : {TRUE}, inst : {<<"gpu">>}]
    \cup {[kind |-> "dict", found |-> "true", has |-> FALSE, inst |-> <<>>]}
    \cup [kind : {"dict"}, found : {"true"}, has : {TRUE},
          inst : {<<>>, <<None>>, <<"">>, <<"gpu">>, <<"disk">>, <<"remote">>}]

\* what the LLM and the controller do in one generate_and_manage call: generate
\* raises; or tokenize raises; or lookup answers, and move, if it is called,
\* succeeds or raises
Answers ==
    {[genR |-> "raise", tokR |-> "none", lookR |-> NoLookup, moveR |-> "none"],
     [genR |-> "ok", tokR |-> "raise", lookR |-> NoLookup, moveR |-> "none"]}
    \cup {[genR |-> "ok", tokR |-> "ok", lookR |-> a, moveR |-> "ok"] : a \in LookupAnswers}
    \cup {[genR |-> "ok", tokR |-> "ok", lookR |-> a, moveR |-> "raise"] :
            a \in {x \in LookupAnswers : x.found = "true" /\ x.has /\ x.inst # <<>>
                                          /\ TruthyStr(x.inst[1])}}

\* the metadata argument: None (given = FALSE), or a dict
MetadataArgs ==
    {[given |-> FALSE, md |-> NoMetadata]}
    \cup {[given |-> TRUE, md |-> m] : m \in CallerMetadatas}

\* `current_layout.get("found")` is truthy
Found_Always(layout) == TRUE

Found(layout) == layout.found = "true"

Ctl(fn) == [fn |-> fn, old |-> <<>>, new |-> <<>>]

\* the body of the try block: the controller calls made, the value returned,
\* and whether an exception left the block
apply_body(prompt, metadata, e, tokR, lookR, moveR) ==
    LET c1 == <<Ctl("tokenize")>>
        c2 == c1 \o <<Ctl("lookup")>>
        Raise(cs) == [calls |-> cs, ret |-> None, raised |-> TRUE]
        Return(cs, r) == [calls |-> cs, ret |-> r, raised |-> FALSE]
    IN  IF tokR = "raise" THEN Raise(c1)
        ELSE IF lookR.kind = "raise" THEN Raise(c2)
        \* .get on JSON that is no dict: AttributeError
        ELSE IF lookR.kind = "notdict" THEN Raise(c2)
        ELSE IF ~Found(lookR) THEN Return(c2, None)
        \* [][0]: IndexError
        ELSE IF lookR.has /\ lookR.inst = <<>> THEN Raise(c2)
        ELSE LET current_backend == IF lookR.has THEN lookR.inst[1] ELSE None
                 ttl == compute_ttl(metadata, DefaultBaseTtl, DefaultMinTtl,
                                    DefaultMaxTtl, DefaultAlpha)
                 preferred_backend == select_backend(metadata, e)
             IN  IF ttl.raised \/ preferred_backend = "ValueError" THEN Raise(c2)
                 ELSE IF /\ TruthyStr(current_backend)
                         /\ TruthyStr(preferred_backend)
                         /\ current_backend # preferred_backend
                 THEN LET c3 == c2 \o
                            <<[fn |-> "move",
                               old |-> <<"lmcache_instance", current_backend>>,
                               new |-> <<"lmcache_instance", preferred_backend>>]>>
                      IN  IF moveR = "raise" THEN Raise(c3)
                          ELSE Return(c3, "move_result")
                 ELSE Return(c2, None)

\* the mutant has no try/except around the body
apply_heuristics_and_move_NoCatch(prompt, metadata, e, tokR, lookR, moveR) ==
    apply_body(prompt, metadata, e, tokR, lookR, moveR)

\* the mutant catches the failure of tokenize alone and goes on to the lookup
apply_heuristics_and_move_LookupAnyway(prompt, metadata, e, tokR, lookR, moveR) ==
    LET r == apply_body(prompt, metadata, e, "ok", lookR, moveR)
    IN  [r EXCEPT !.raised = FALSE]

\* the mutant calls move again when move failed
apply_heuristics_and_move_Retry(prompt, metadata, e, tokR, lookR, moveR) ==
    LET r == apply_body(prompt, metadata, e, tokR, lookR, moveR)
    IN  IF r.raised /\ r.calls[Len(r.calls)].fn = "move"
        THEN [calls |-> r.calls \o <<r.calls[Len(r.calls)]>>, ret |-> None,
              raised |-> FALSE]
        ELSE [r EXCEPT !.raised = FALSE]

\* try: body; except Exception: print, pass
apply_heuristics_and_move(prompt, metadata, e, tokR, lookR, moveR) ==
    LET r == apply_body(prompt, metadata, e, tokR, lookR, moveR)
    IN  IF r.raised THEN [r EXCEPT !.raised = FALSE] ELSE r

\* self.access_count.get(prompt_hash, 0)
CountOf(counts, h) == IF h \in DOMAIN counts THEN counts[h] ELSE 0

\* the mutant reconciles first and generates afterwards
GenerateAndManage_ReconFirst(prompt, given, md, genR, tokR, lookR, moveR) ==
    LET entry == [NoCall EXCEPT !.ran = TRUE, !.prompt = prompt, !.env = env,
                                !.given = given, !.mdIn = md, !.mdAfter = md]
        metadata0 == IF given THEN md ELSE DefaultMetadata
        prompt_hash == hash(prompt)
        count == CountOf(access_count, prompt_hash) + 1
        metadata == [metadata0 EXCEPT !.access_count = Some(count)]
        counted == [entry EXCEPT !.scored = metadata, !.genR = genR,
                                 !.mdAfter = IF given THEN metadata ELSE md]
        r == apply_heuristics_and_move(prompt, metadata, env, tokR, lookR, moveR)
        n == Len(r.calls)
    IN  /\ IF llm = None
           THEN /\ call' = [entry EXCEPT !.outcome = "RuntimeError"]
                /\ UNCHANGED <<access_count, passed>>
           ELSE /\ count <= MaxCalls
                /\ passed' = [passed EXCEPT ![prompt] = @ + 1]
                /\ access_count' = [h \in DOMAIN access_count \cup {prompt_hash} |->
                                        IF h = prompt_hash THEN count ELSE access_count[h]]
                /\ IF genR = "raise"
                   THEN call' = [counted EXCEPT !.outcome = "GenerateError",
                                                !.calls = r.calls \o <<Ctl("generate")>>]
                   ELSE call' = [counted EXCEPT
                                    !.outcome = IF r.raised THEN "ReconError" ELSE "returned",
                                    !.text = IF r.raised THEN <<>> ELSE llm_generate(prompt),
                                    !.calls = r.calls \o <<Ctl("generate")>>,
                                    !.reconRet = r.ret,
                                    !.tokR = tokR,
                                    !.lookup = IF n >= 2 THEN lookR ELSE NoLookup,
                                    !.moveR = IF n >= 3 THEN moveR ELSE "none"]
        /\ UNCHANGED <<llm, env, heurVars, cacheVars, concVars, ctlVars, ttlVars>>

\* the mutant counts the access and writes the metadata before it tests the LLM
GenerateAndManage_CountFirst(prompt, given, md, genR, tokR, lookR, moveR) ==
    LET entry == [NoCall EXCEPT !.ran = TRUE, !.prompt = prompt, !.env = env,
                                !.given = given, !.mdIn = md, !.mdAfter = md]
        metadata0 == IF given THEN md ELSE DefaultMetadata
        prompt_hash == hash(prompt)
        count == CountOf(access_count, prompt_hash) + 1
        metadata == [metadata0 EXCEPT !.access_count = Some(count)]
        counted == [entry EXCEPT !.scored = metadata, !.genR = genR,
                                 !.mdAfter = IF given THEN metadata ELSE md]
        r == apply_heuristics_and_move(prompt, metadata, env, tokR, lookR, moveR)
        n == Len(r.calls)
    IN  /\ IF llm = None
           THEN /\ call' = [entry EXCEPT !.outcome = "RuntimeError",
                                          !.mdAfter = IF given THEN metadata ELSE md]
                /\ count <= MaxCalls
                /\ access_count' = [h \in DOMAIN access_count \cup {prompt_hash} |->
                                        IF h = prompt_hash THEN count ELSE access_count[h]]
                /\ UNCHANGED passed
           ELSE /\ count <= MaxCalls
                /\ passed' = [passed EXCEPT ![prompt] = @ + 1]
                /\ access_count' = [h \in DOMAIN access_count \cup {prompt_hash} |->
                                        IF h = prompt_hash THEN count ELSE access_count[h]]
                /\ IF genR = "raise"
                   THEN call' = [counted EXCEPT !.outcome = "GenerateError",
                                                !.calls = <<Ctl("generate")>>]
                   ELSE call' = [counted EXCEPT
                                    !.outcome = IF r.raised THEN "ReconError" ELSE "returned",
                                    !.text = IF r.raised THEN <<>> ELSE llm_generate(prompt),
                                    !.calls = <<Ctl("generate")>> \o r.calls,
                                    !.reconRet = r.ret,
                                    !.tokR = tokR,
                                    !.lookup = IF n >= 2 THEN lookR ELSE NoLookup,
                                    !.moveR = IF n >= 3 THEN moveR ELSE "none"]
        /\ UNCHANGED <<llm, env, heurVars, cacheVars, concVars, ctlVars, ttlVars>>

\* given is FALSE when the caller passes metadata=None
GenerateAndManage(prompt, given, md, genR, tokR, lookR, moveR) ==
    LET entry == [NoCall EXCEPT !.ran = TRUE, !.prompt = prompt, !.env = env,
                                !.given = given, !.mdIn = md, !.mdAfter = md]
        metadata0 == IF given THEN md ELSE DefaultMetadata
        prompt_hash == hash(prompt)
        count == CountOf(access_count, prompt_hash) + 1
        metadata == [metadata0 EXCEPT !.access_count = Some(count)]
        counted == [entry EXCEPT !.scored = metadata, !.genR = genR,
                                 !.mdAfter = IF given THEN metadata ELSE md]
        r == apply_heuristics_and_move(prompt, metadata, env, tokR, lookR, moveR)
        n == Len(r.calls)
    IN  /\ IF llm = None
           THEN /\ call' = [entry EXCEPT !.outcome = "RuntimeError"]
                /\ UNCHANGED <<access_count, passed>>
           ELSE /\ count <= MaxCalls
                /\ passed' = [passed EXCEPT ![prompt] = @ + 1]
                /\ access_count' = [h \in DOMAIN access_count \cup {prompt_hash} |->
                                        IF h = prompt_hash THEN count ELSE access_count[h]]
                /\ IF genR = "raise"
                   THEN call' = [counted EXCEPT !.outcome = "GenerateError",
                                                !.calls = <<Ctl("generate")>>]
                   ELSE call' = [counted EXCEPT
                                    !.outcome = IF r.raised THEN "ReconError" ELSE "returned",
                                    !.text = IF r.raised THEN <<>> ELSE llm_generate(prompt),
                                    !.calls = <<Ctl("generate")>> \o r.calls,
                                    !.reconRet = r.ret,
                                    !.tokR = tokR,
                                    !.lookup = IF n >= 2 THEN lookR ELSE NoLookup,
                                    !.moveR = IF n >= 3 THEN moveR ELSE "none"]
        /\ UNCHANGED <<llm, env, heurVars, cacheVars, concVars, ctlVars, ttlVars>>

set_llm(l) ==
    /\ llm' = l
    /\ UNCHANGED <<access_count, call, passed, env, heurVars, cacheVars, concVars, ctlVars, ttlVars>>

InitRecon ==
    /\ CacheInit
    /\ focus = "none"
    /\ env = "unset"
    /\ HeurIdle
    /\ ReconIdle
    /\ ConcIdle
    /\ CtlIdle
    /\ TtlIdle

NextRecon ==
    \/ set_llm("llm")
    \/ \E e \in {"unset", "1"} : SetEnv(e)
    \/ \E p \in Prompts, m \in MetadataArgs, a \in Answers :
          GenerateAndManage(p, m.given, m.md, a.genR, a.tokR, a.lookR, a.moveR)

SpecRecon == InitRecon /\ [][NextRecon]_vars

-----------------------------------------------------------------------------
(* One InMemoryBackend under callers that run in parallel.  The class has no *)
(* lock, so another caller may run between any two source lines of a call;   *)
(* each line of get touches self.store at most once.                         *)

ConcKeys == {"k1"}

ConcTtls == {NoNum, Some(1)}

ConcFrame == UNCHANGED <<files, redis, focus, lastSet, lastOp, env, heurVars, reconVars,
                         ctlVars, ttlVars>>

\* the caller th enters get(key): line 34 is next
CallGet(th, key) ==
    /\ threads[th].line = 0
    /\ threads' = [threads EXCEPT ![th] = [NoThread EXCEPT !.line = 34, !.key = key]]
    /\ UNCHANGED <<now, store>>
    /\ ConcFrame

\* line 34: if key in self.store (else line 40: return None)
GetLine34(th) ==
    /\ threads[th].line = 34
    /\ threads' = [threads EXCEPT ![th] =
                      IF threads[th].key \in DOMAIN store
                      THEN [threads[th] EXCEPT !.line = 35]
                      ELSE [NoThread EXCEPT !.ret = None]]
    /\ UNCHANGED <<now, store>>
    /\ ConcFrame

\* line 35: val, expire = self.store[key], a KeyError when the key is gone
GetLine35(th) ==
    /\ threads[th].line = 35
    /\ threads' = [threads EXCEPT ![th] =
                      IF threads[th].key \in DOMAIN store
                      THEN [threads[th] EXCEPT !.line = 36,
                                               !.val = store[threads[th].key].val,
                                               !.expire = store[threads[th].key].expire]
                      ELSE [NoThread EXCEPT !.ret = "KeyError"]]
    /\ UNCHANGED <<now, store>>
    /\ ConcFrame

\* lines 36-37: if expire is None or expire > time.time(): return val
GetLine36(th) ==
    /\ threads[th].line = 36
    /\ threads' = [threads EXCEPT ![th] =
                      IF threads[th].expire = NoNum \/ threads[th].expire[1] > now
                      THEN [NoThread EXCEPT !.ret = threads[th].val]
                      ELSE [threads[th] EXCEPT !.line = 39]]
    /\ UNCHANGED <<now, store>>
    /\ ConcFrame

\* line 39: del self.store[key], a KeyError when the key is gone; then line 40:
\* return None
GetLine39(th) ==
    LET key == threads[th].key
    IN  /\ threads[th].line = 39
        /\ IF key \in DOMAIN store
           THEN /\ store' = InMemoryBackend_delete(store, key)
                /\ threads' = [threads EXCEPT ![th] =
                        [NoThread EXCEPT !.ret = None,
                                         !.removedFresh =
                                            \/ store[key].expire = NoNum
                                            \/ store[key].expire[1] > now]]
           ELSE /\ threads' = [threads EXCEPT ![th] = [NoThread EXCEPT !.ret = "KeyError"]]
                /\ UNCHANGED store
        /\ UNCHANGED now
        /\ ConcFrame

\* the caller th enters set(key, value, ttl) and runs line 43: expire is
\* computed from time.time(); line 44 is next
CallSet(th, key, value, ttl) ==
    /\ threads[th].line = 0
    /\ threads' = [threads EXCEPT ![th] =
                      [NoThread EXCEPT !.line = 44, !.key = key, !.value = value,
                                       !.ttl = ttl, !.at = now]]
    /\ UNCHANGED <<now, store>>
    /\ ConcFrame

\* line 44: self.store[key] = (value, expire)
SetLine44(th) ==
    /\ threads[th].line = 44
    /\ store' = InMemoryBackend_set(store, threads[th].key, threads[th].value,
                                    threads[th].ttl, threads[th].at)
    /\ threads' = [threads EXCEPT ![th] = NoThread]
    /\ UNCHANGED now
    /\ ConcFrame

\* delete(key) is the one call self.store.pop(key, None)
CallDelete(th, key) ==
    /\ threads[th].line = 0
    /\ store' = InMemoryBackend_delete(store, key)
    /\ threads' = [threads EXCEPT ![th] = NoThread]
    /\ UNCHANGED now
    /\ ConcFrame

InitConc ==
    /\ CacheInit
    /\ focus = "mem"
    /\ env = "unset"
    /\ HeurIdle
    /\ ReconIdle
    /\ ConcIdle
    /\ CtlIdle
    /\ TtlIdle

NextConc ==
    \/ \E th \in Threads, k \in ConcKeys : CallGet(th, k)
    \/ \E th \in Threads : GetLine34(th)
    \/ \E th \in Threads : GetLine35(th)
    \/ \E th \in Threads : GetLine36(th)
    \/ \E th \in Threads : GetLine39(th)
    \/ \E th \in Threads, k \in ConcKeys, v \in Values, ttl \in ConcTtls :
          CallSet(th, k, v, ttl)
    \/ \E th \in Threads : SetLine44(th)
    \/ \E th \in Threads, k \in ConcKeys : CallDelete(th, k)
    \/ Tick

SpecConc == InitConc /\ [][NextConc]_vars

-----------------------------------------------------------------------------
(* One LocalDiskBackend directory under callers that run in parallel.  The   *)
(* class takes no file lock; a step is one file-system call.                 *)

\* the file that open(path, "wb") leaves before anything is written
EmptyFile == [truncated |-> TRUE]

DiskFrame == UNCHANGED <<store, redis, focus, lastSet, lastOp, env, heurVars, reconVars,
                         ctlVars, ttlVars>>

\* what thread th does next
DiskStep(th, next) ==
    /\ threads' = [threads EXCEPT ![th] = next]
    /\ UNCHANGED <<now, files>>
    /\ DiskFrame

DiskReturn(r) == [NoThread EXCEPT !.ret = r]

\* the caller th enters get(key): line 61 is next
DiskCallGet(th, key) ==
    /\ threads[th].line = 0
    /\ DiskStep(th, [NoThread EXCEPT !.line = 61, !.key = key])

\* lines 61-62: if not os.path.exists(path): return None
DiskGetLine61(th) ==
    /\ threads[th].line = 61
    /\ DiskStep(th, IF threads[th].key \in DOMAIN files
                     THEN [threads[th] EXCEPT !.line = 63]
                     ELSE DiskReturn(None))

\* lines 63-64: open(path, "rb") raises FileNotFoundError when the file is
\* gone; pickle.load raises EOFError on a file that holds nothing yet
DiskGetLine63(th) ==
    LET key == threads[th].key
    IN  /\ threads[th].line = 63
        /\ DiskStep(th, IF key \notin DOMAIN files THEN DiskReturn("FileNotFoundError")
                         ELSE IF files[key] = EmptyFile THEN DiskReturn("EOFError")
                         ELSE [threads[th] EXCEPT
                                  !.line = 65,
                                  !.val = pickle_loads(files[key]).val,
                                  !.expire = pickle_loads(files[key]).expire])

\* lines 65-66: if expire is None or expire > time.time(): return value
DiskGetLine65(th) ==
    /\ threads[th].line = 65
    /\ DiskStep(th, IF threads[th].expire = NoNum \/ threads[th].expire[1] > now
                     THEN DiskReturn(threads[th].val)
                     ELSE [threads[th] EXCEPT !.line = 68])

\* lines 68-69: os.remove(path), a FileNotFoundError when the file is gone;
\* return None
DiskGetLine68(th) ==
    LET key == threads[th].key
    IN  /\ threads[th].line = 68
        /\ IF key \in DOMAIN files
           THEN /\ files' = LocalDiskBackend_delete(files, key)
                /\ threads' = [threads EXCEPT ![th] =
                        [NoThread EXCEPT
                            !.removedFresh =
                               \/ files[key] = EmptyFile
                               \/ ~Stale(pickle_loads(files[key]), now)]]
           ELSE /\ threads' = [threads EXCEPT ![th] = DiskReturn("FileNotFoundError")]
                /\ UNCHANGED files
        /\ UNCHANGED now
        /\ DiskFrame

\* the caller th enters set(key, value, ttl) and runs line 72: expire is
\* computed from time.time(); line 73 is next
DiskCallSet(th, key, value, ttl) ==
    /\ threads[th].line = 0
    /\ DiskStep(th, [NoThread EXCEPT !.line = 73, !.key = key, !.value = value,
                                      !.ttl = ttl, !.at = now])

\* line 73: open(path, "wb") creates the file or truncates it
DiskSetLine73(th) ==
    /\ threads[th].line = 73
    /\ files' = [k \in DOMAIN files \cup {threads[th].key} |->
                    IF k = threads[th].key THEN EmptyFile ELSE files[k]]
    /\ threads' = [threads EXCEPT ![th] = [threads[th] EXCEPT !.line = 74]]
    /\ UNCHANGED now
    /\ DiskFrame

\* line 74: pickle.dump((value, expire), f) and the close of the file; the
\* bytes reach the path even when another caller has removed it meanwhile
\* only if the file is still linked
DiskSetLine74(th) ==
    LET me == threads[th]
    IN  /\ me.line = 74
        /\ files' = IF me.key \in DOMAIN files
                     THEN LocalDiskBackend_set(files, me.key, me.value, me.ttl, me.at)
                     ELSE files
        /\ threads' = [threads EXCEPT ![th] = NoThread]
        /\ UNCHANGED now
        /\ DiskFrame

\* the caller th enters delete(key): line 78 is next
DiskCallDelete(th, key) ==
    /\ threads[th].line = 0
    /\ DiskStep(th, [NoThread EXCEPT !.line = 78, !.key = key])

\* line 78: if os.path.exists(path)
DiskDeleteLine78(th) ==
    /\ threads[th].line = 78
    /\ DiskStep(th, IF threads[th].key \in DOMAIN files
                     THEN [threads[th] EXCEPT !.line = 79]
                     ELSE NoThread)

\* line 79: os.remove(path), a FileNotFoundError when the file is gone
DiskDeleteLine79(th) ==
    LET key == threads[th].key
    IN  /\ threads[th].line = 79
        /\ IF key \in DOMAIN files
           THEN /\ files' = LocalDiskBackend_delete(files, key)
                /\ threads' = [threads EXCEPT ![th] = NoThread]
           ELSE /\ threads' = [threads EXCEPT ![th] = DiskReturn("FileNotFoundError")]
                /\ UNCHANGED files
        /\ UNCHANGED now
        /\ DiskFrame

InitDiskConc ==
    /\ CacheInit
    /\ focus = "disk"
    /\ env = "unset"
    /\ HeurIdle
    /\ ReconIdle
    /\ ConcIdle
    /\ CtlIdle
    /\ TtlIdle

NextDiskConc ==
    \/ \E th \in Threads, k \in ConcKeys : DiskCallGet(th, k)
    \/ \E th \in Threads : DiskGetLine61(th)
    \/ \E th \in Threads : DiskGetLine63(th)
    \/ \E th \in Threads : DiskGetLine65(th)
    \/ \E th \in Threads : DiskGetLine68(th)
    \/ \E th \in Threads, k \in ConcKeys, v \in Values, ttl \in ConcTtls :
          DiskCallSet(th, k, v, ttl)
    \/ \E th \in Threads : DiskSetLine73(th)
    \/ \E th \in Threads : DiskSetLine74(th)
    \/ \E th \in Threads, k \in ConcKeys : DiskCallDelete(th, k)
    \/ \E th \in Threads : DiskDeleteLine78(th)
    \/ \E th \in Threads : DiskDeleteLine79(th)
    \/ Tick

SpecDiskConc == InitDiskConc /\ [][NextDiskConc]_vars

-----------------------------------------------------------------------------
(* cache_controller.py: the module global _PROC tracks the one controller    *)
(* process that start_controller started.  A process may exit by itself at   *)
(* any time.                                                                 *)

\* processes are started up to here
MaxSpawns == 4

CtlFrame == UNCHANGED <<cacheVars, env, heurVars, reconVars, concVars, ttlVars>>

\* _PROC is not None and _PROC.poll() is None
controller_running == PROC # 0 /\ PROC \in alive

\* the mutant has no test of the tracked process: it starts one at every call
start_controller_Always(ok) ==
    /\ spawns < MaxSpawns
    /\ PROC' = spawns + 1
    /\ alive' = alive \cup {spawns + 1}
    /\ spawns' = spawns + 1
    /\ ctlOp' = [NoCtlOp EXCEPT !.op = "start", !.ret = spawns + 1, !.spawned = TRUE]
    /\ UNCHANGED killed
    /\ CtlFrame

\* ok is FALSE when open(log_path) or subprocess.Popen raises
start_controller(ok) ==
    /\ IF controller_running
       THEN /\ ctlOp' = [NoCtlOp EXCEPT !.op = "start", !.ret = PROC]
            /\ UNCHANGED <<PROC, alive, spawns>>
       ELSE IF ~ok
       THEN /\ ctlOp' = [NoCtlOp EXCEPT !.op = "start", !.raised = TRUE]
            /\ UNCHANGED <<PROC, alive, spawns>>
       ELSE /\ spawns < MaxSpawns
            /\ PROC' = spawns + 1
            /\ alive' = alive \cup {spawns + 1}
            /\ spawns' = spawns + 1
            /\ ctlOp' = [NoCtlOp EXCEPT !.op = "start", !.ret = spawns + 1,
                                        !.spawned = TRUE]
    /\ UNCHANGED killed
    /\ CtlFrame

\* the mutant keeps the handle of a process it had to kill
stop_controller_KeepKilled(inTime, lingers) ==
    /\ IF PROC = 0
       THEN /\ ctlOp' = [NoCtlOp EXCEPT !.op = "stop"]
            /\ UNCHANGED <<PROC, alive, killed>>
       ELSE IF PROC \in alive
       THEN IF inTime
            THEN /\ alive' = alive \ {PROC}
                 /\ PROC' = 0
                 /\ UNCHANGED killed
                 /\ ctlOp' = [NoCtlOp EXCEPT !.op = "stop", !.how = "terminate"]
            ELSE /\ alive' = IF lingers THEN alive ELSE alive \ {PROC}
                 /\ UNCHANGED PROC
                 /\ killed' = killed \cup {PROC}
                 /\ ctlOp' = [NoCtlOp EXCEPT !.op = "stop", !.how = "kill"]
       ELSE /\ PROC' = 0
            /\ UNCHANGED <<alive, killed>>
            /\ ctlOp' = [NoCtlOp EXCEPT !.op = "stop", !.how = "exited"]
    /\ UNCHANGED spawns
    /\ CtlFrame

\* inTime: the process ends within the timeout after terminate(); otherwise
\* wait raises TimeoutExpired and kill() is sent, which is not waited for:
\* lingers is TRUE when the process is still there as stop_controller returns
stop_controller(inTime, lingers) ==
    /\ IF PROC = 0
       THEN /\ ctlOp' = [NoCtlOp EXCEPT !.op = "stop"]
            /\ UNCHANGED <<PROC, alive, killed>>
       ELSE IF PROC \in alive
       THEN /\ alive' = IF ~inTime /\ lingers THEN alive ELSE alive \ {PROC}
            /\ PROC' = 0
            /\ killed' = IF inTime THEN killed ELSE killed \cup {PROC}
            /\ ctlOp' = [NoCtlOp EXCEPT !.op = "stop",
                                        !.how = IF inTime THEN "terminate" ELSE "kill"]
       ELSE /\ PROC' = 0
            /\ UNCHANGED <<alive, killed>>
            /\ ctlOp' = [NoCtlOp EXCEPT !.op = "stop", !.how = "exited"]
    /\ UNCHANGED spawns
    /\ CtlFrame

\* a controller process exits by itself, or a killed one is gone
ProcExits(pid) ==
    /\ pid \in alive
    /\ alive' = alive \ {pid}
    /\ UNCHANGED <<PROC, spawns, killed, ctlOp>>
    /\ CtlFrame

InitCtl ==
    /\ CacheInit
    /\ focus = "none"
    /\ env = "unset"
    /\ HeurIdle
    /\ ReconIdle
    /\ ConcIdle
    /\ CtlIdle
    /\ TtlIdle

NextCtl ==
    \/ \E ok \in BOOLEAN : start_controller(ok)
    \/ \E inTime \in BOOLEAN, lingers \in BOOLEAN : stop_controller(inTime, lingers)
    \/ \E pid \in 1..MaxSpawns : ProcExits(pid)

SpecCtl == InitCtl /\ [][NextCtl]_vars

-----------------------------------------------------------------------------
(* experimental/remote_ttl_store.py: RemoteTTLStore keeps an index record    *)
(* per key in Redis and the payload in a file; expiry is tested on read.     *)

\* the clock ticks this many times per second
TicksPerSecond == 2

\* the clock stops advancing here
MaxTicks == 4

\* put is called with a ttl_seconds up to here
MaxTtlSeconds == 1

TtlFrame == UNCHANGED <<cacheVars, env, heurVars, reconVars, concVars, ctlVars>>

\* int(time.time())
int_time == clock \div TicksPerSecond

Payloads ==
    {[type |-> "str", data |-> "txt"], [type |-> "bytes", data |-> "txt"],
     [type |-> "bytes", data |-> "nul"]}

TtlSeconds == 0..MaxTtlSeconds

json_dumps(meta) == [json |-> meta]

json_loads(raw) == raw.json

\* mode "wb" writes the bytes, mode "w" the encoding of the text: in both
\* cases the file holds bytes and nothing of the payload's type
write_blob(payload) == [bytes |-> payload.data]

read_blob(file) ==
    IF file.bytes = "nul" THEN [type |-> "bytes", data |-> file.bytes]
    ELSE IF file.bytes = "bin" THEN [type |-> "bytes", data |-> file.bytes]
    ELSE [type |-> "str", data |-> file.bytes]

put(logical_key, payload, ttl_seconds) ==
    LET key == sha256(logical_key)
        expires_at == int_time + ttl_seconds
        meta == [expires_at |-> expires_at, content_type |-> "text/plain",
                 blob_path |-> blob_path(key)]
    IN  /\ blobs' = [blobs EXCEPT ![blob_path(key)] = <<write_blob(payload)>>]
        /\ idx' = [idx EXCEPT ![idx_key(key)] = <<json_dumps(meta)>>]
        /\ ttlOp' = [op |-> "put", key |-> logical_key,
                     ret |-> <<[key |-> key, expires_at |-> expires_at]>>]
        /\ lastPut' = [lastPut EXCEPT ![logical_key] =
                         [put |-> TRUE, deleted |-> FALSE,
                          replaced |-> idx[idx_key(key)] # <<>>,
                          at |-> clock, ttl |-> ttl_seconds, payload |-> payload]]
        /\ UNCHANGED clock
        /\ TtlFrame

\* the mutant tests now > expires_at
get_if_fresh_Gt(logical_key) ==
    LET key == sha256(logical_key)
        raw == idx[idx_key(key)]
        meta == json_loads(raw[1])
        ret == IF raw = <<>> THEN <<>>
               ELSE IF int_time > meta.expires_at THEN <<>>
               ELSE IF blobs[meta.blob_path] = <<>> THEN <<>>
               ELSE <<[key |-> key, payload |-> read_blob(blobs[meta.blob_path][1]),
                       content_type |-> meta.content_type,
                       expires_at |-> meta.expires_at]>>
    IN  /\ ttlOp' = [op |-> "get", key |-> logical_key, ret |-> ret]
        /\ UNCHANGED <<idx, blobs, lastPut, clock>>
        /\ TtlFrame

get_if_fresh(logical_key) ==
    LET key == sha256(logical_key)
        raw == idx[idx_key(key)]
        meta == json_loads(raw[1])
        ret == IF raw = <<>> THEN <<>>
               ELSE IF int_time >= meta.expires_at THEN <<>>
               ELSE IF blobs[meta.blob_path] = <<>> THEN <<>>
               ELSE <<[key |-> key, payload |-> read_blob(blobs[meta.blob_path][1]),
                       content_type |-> meta.content_type,
                       expires_at |-> meta.expires_at]>>
    IN  /\ ttlOp' = [op |-> "get", key |-> logical_key, ret |-> ret]
        /\ UNCHANGED <<idx, blobs, lastPut, clock>>
        /\ TtlFrame

delete(logical_key) ==
    LET key == sha256(logical_key)
        raw == idx[idx_key(key)]
    IN  /\ blobs' = IF raw # <<>>
                    THEN [blobs EXCEPT ![json_loads(raw[1]).blob_path] = <<>>]
                    ELSE blobs
        /\ idx' = [idx EXCEPT ![idx_key(key)] = <<>>]
        /\ ttlOp' = [op |-> "delete", key |-> logical_key, ret |-> <<[deleted |-> TRUE]>>]
        /\ lastPut' = [lastPut EXCEPT ![logical_key] = [NoPut EXCEPT !.deleted = TRUE]]
        /\ UNCHANGED clock
        /\ TtlFrame

TtlTick ==
    /\ clock < MaxTicks
    /\ clock' = clock + 1
    /\ UNCHANGED <<idx, blobs, ttlOp, lastPut>>
    /\ TtlFrame

InitTtl ==
    /\ CacheInit
    /\ focus = "none"
    /\ env = "unset"
    /\ HeurIdle
    /\ ReconIdle
    /\ ConcIdle
    /\ CtlIdle
    /\ TtlIdle

NextTtl ==
    \/ \E k \in LogicalKeys, p \in Payloads, ttl \in TtlSeconds : put(k, p, ttl)
    \/ \E k \in LogicalKeys : get_if_fresh(k)
    \/ \E k \in LogicalKeys : delete(k)
    \/ TtlTick

SpecTtl == InitTtl /\ [][NextTtl]_vars

-----------------------------------------------------------------------------
(* Properties of the backends and of the tiered cache *)

\* C1 (lazy expiry): a get on an InMemoryBackend or LocalDiskBackend returns a
\* value only if the most recent set of that key stored no expiry or an expiry
\* strictly after the time of the get, and then it returns that set's value;
\* once the time has reached the expiry the get returns None, whether or not
\* the entry is still physically stored.
LazyExpiry ==
    (lastOp.op = "get" /\ lastOp.b \in {"mem", "disk"}) =>
        LET ls == lastSet[lastOp.key]
        IN  /\ lastOp.ret # None =>
                /\ ls.set
                /\ lastOp.ret = ls.val
                /\ (ls.expire = NoNum \/ ls.expire[1] > lastOp.at)
            /\ (ls.set /\ ls.expire # NoNum /\ lastOp.at >= ls.expire[1]) =>
                lastOp.ret = None

\* C1 witness: a get at or after the expiry answered None for an entry that was
\* physically stored when the get began.
LazyExpiryWitness ==
    /\ lastOp.op = "get"
    /\ lastOp.b \in {"mem", "disk"}
    /\ lastOp.held
    /\ lastOp.ret = None
    /\ lastSet[lastOp.key].set
    /\ lastSet[lastOp.key].expire # NoNum
    /\ lastOp.at >= lastSet[lastOp.key].expire[1]

\* the tiers whose backend answers a get of key with a value, in the stores S at time t
HitTiers(S, key, t) ==
    {i \in 1..NTiers : BackendGet(Tiers[i].backend, S, key, t).ret # None}

MinOf(I) == CHOOSE i \in I : \A j \in I : i <= j

\* tier i holds value under key with that tier's own ttl counted from t: a get
\* just before t + ttl answers value, a get at t + ttl answers None
HoldsWithOwnTtl(i, S, key, value, t) ==
    LET b == Tiers[i].backend
        ttl == Tiers[i].ttl[1]
    IN  /\ BackendGet(b, S, key, t).ret = value
        /\ BackendGet(b, S, key, t + ttl - 1).ret = value
        /\ BackendGet(b, S, key, t + ttl).ret = None

PromotionStep ==
    LET S == Stores
        T == Stores'
        key == lastOp'.key
        hits == HitTiers(S, key, now)
    IN  (lastOp'.op = "tget" /\ hits # {}) =>
            LET i == MinOf(hits)
            IN  /\ lastOp'.ret = BackendGet(Tiers[i].backend, S, key, now).ret
                /\ \A j \in 1..(i - 1) : HoldsWithOwnTtl(j, T, key, lastOp'.ret, now)
                /\ \A j \in i..NTiers : T[Tiers[j].backend] = S[Tiers[j].backend]
                /\ (i = 1 => T = S)
                /\ BackendGet(Tiers[1].backend, T, key, now).ret = lastOp'.ret

\* C2 (promotion): a tiered get answers with the value of the first tier, in
\* index order, whose backend hits; on a hit at a tier after the first the value
\* is written into every earlier tier with that tier's own ttl and the tiers
\* from the hit on are left as they were, so that a get of the first backend
\* at the same time hits; on a hit at the first tier no backend changes.
Promotion == [][PromotionStep]_vars

\* C2 witness: a tiered get missed the first tier, hit the second and wrote the
\* first, which now answers the value.
PromotionWitness ==
    /\ lastOp.op = "tget"
    /\ lastOp.hit = 2
    /\ lastOp.written = {1}
    /\ InMemoryBackend_get(store, lastOp.key, now).ret = lastOp.ret
    /\ lastOp.ret # None

TotalMissStep ==
    LET S == Stores
        T == Stores'
        key == lastOp'.key
    IN  (lastOp'.op = "tget" /\ HitTiers(S, key, now) = {}) =>
            IF lastOp'.arg # None
            THEN /\ lastOp'.ret = lastOp'.arg
                 /\ lastOp'.computed = 1
                 /\ \A j \in 1..NTiers : HoldsWithOwnTtl(j, T, key, lastOp'.arg, now)
            ELSE /\ lastOp'.ret = None
                 /\ lastOp'.computed = 0
                 /\ \A j \in 1..NTiers :
                        \/ T[Tiers[j].backend] = S[Tiers[j].backend]
                        \/ ~Holds(Tiers[j].backend, T, key)
                 /\ HitTiers(T, key, now) = {}

\* C3 (total miss): when every backend misses, a tiered get with a compute
\* function computes once, answers the computed value and leaves it in every
\* backend with that tier's own ttl, so every backend hits afterwards; without
\* a compute function it answers None and writes no backend (a backend changes
\* only by losing its stale entry of the key).
TotalMiss == [][TotalMissStep]_vars

\* C3 witness: a total miss with a compute function after which all three
\* backends answer the computed value.
TotalMissWitness ==
    /\ lastOp.op = "tget"
    /\ lastOp.hit = 0
    /\ lastOp.computed = 1
    /\ lastOp.arg # None
    /\ lastOp.ret = lastOp.arg
    /\ HitTiers(Stores, lastOp.key, now) = 1..NTiers

\* C4 (round trip): right after a tiered set(k, v) every backend holds v with
\* its own ttl, and a tiered get(k) at that moment answers v from the first
\* tier, computes nothing and leaves every backend unchanged.
SetGetRoundTrip ==
    lastOp.op = "tset" =>
        LET g == TieredCache_get(Stores, lastOp.key, None, now)
        IN  /\ \A j \in 1..NTiers : HoldsWithOwnTtl(j, Stores, lastOp.key, lastOp.arg, now)
            /\ g.ret = lastOp.arg
            /\ g.hit = 1
            /\ g.written = {}
            /\ g.S = Stores

\* C4 witness: a tiered set has just overwritten an older value of the key and
\* the first backend answers the new value.
SetGetRoundTripWitness ==
    /\ lastOp.op = "tset"
    /\ now > 0
    /\ lastOp.arg = "v2"
    /\ InMemoryBackend_get(store, lastOp.key, now).ret = "v2"
    /\ TieredCache_get(Stores, lastOp.key, None, now).hit = 1

\* the times at which a later get may run
Later == now..(MaxTime + MaxTtl + 1)

\* C13 (set ttl semantics): right after set(key, value, ttl) on any backend,
\* when a ttl was given (0 included) a get answers value before now + ttl and
\* None from now + ttl on, so after ttl = 0 the next get answers None; when no
\* ttl was given a get answers value at every later time.
SetTtlSemantics ==
    lastOp.op = "set" =>
        \A t \in Later :
            BackendGet(lastOp.b, Stores, lastOp.key, t).ret =
                IF lastOp.ttl = NoNum \/ t < now + lastOp.ttl[1]
                THEN lastOp.arg ELSE None

\* C14 (missing keys are not errors): on every backend a get of a key the
\* backend does not hold answers None; after a delete, of a held key or of an
\* absent one, the key is not held, a get answers None, and a second delete
\* leaves the backend as the first left it.
MissingKeyIsNoError ==
    /\ (lastOp.op = "get" /\ ~lastOp.held) => lastOp.ret = None
    /\ lastOp.op = "delete" =>
          /\ lastOp.ret = None
          /\ ~Holds(lastOp.b, Stores, lastOp.key)
          /\ BackendGet(lastOp.b, Stores, lastOp.key, now).ret = None
          /\ BackendGet(lastOp.b, Stores, lastOp.key, now).S = Stores
          /\ BackendDelete(lastOp.b, Stores, lastOp.key) = Stores

\* C14 witness: a delete of a key that had been set and was no longer held.
MissingKeyIsNoErrorWitness ==
    /\ lastOp.op = "delete"
    /\ ~lastOp.held
    /\ lastSet[lastOp.key].set
    /\ BackendDelete(lastOp.b, Stores, lastOp.key) = Stores

FullOverwriteStep ==
    lastOp'.op = "set" =>
        LET b == lastOp'.b
            key == lastOp'.key
            S == Stores
            T == Stores'
        IN  /\ T = BackendSet(b, BackendDelete(b, S, key), key, lastOp'.arg,
                              lastOp'.ttl, now)
            /\ BackendDelete(b, T, key) = BackendDelete(b, S, key)

FullOverwriteLifetime ==
    lastOp.op = "set" =>
        /\ BackendGet(lastOp.b, Stores, lastOp.key, now).ret = lastOp.arg
        /\ lastOp.ttl = NoNum =>
              \A t \in Later :
                  BackendGet(lastOp.b, Stores, lastOp.key, t).ret = lastOp.arg
        /\ Truthy(lastOp.ttl) =>
              \A t \in Later :
                  BackendGet(lastOp.b, Stores, lastOp.key, t).ret =
                      IF t < now + lastOp.ttl[1] THEN lastOp.arg ELSE None

\* C15 (full overwrite): a set(k, v2, ttl2) on a backend leaves under k exactly
\* what the same set leaves on a backend that never held k, and leaves every
\* other key as it was; a get of k then answers v2; with no ttl the entry
\* answers v2 at every later time, with a ttl above 0 until now + ttl2.
FullOverwrite == [][FullOverwriteStep]_vars /\ []FullOverwriteLifetime

\* C15 witness: a set without ttl replaced an entry that had been set with an
\* expiry still ahead, and the key answers the new value at that expiry.
FullOverwriteWitness ==
    /\ lastOp.op = "set"
    /\ lastOp.held
    /\ lastOp.prev # NoNum
    /\ lastOp.ttl = NoNum
    /\ now < lastOp.prev[1]
    /\ BackendGet(lastOp.b, Stores, lastOp.key, lastOp.prev[1]).ret = lastOp.arg

StaleRemovedOnReadStep ==
    focus \in {"mem", "disk"} =>
        \A k \in Keys :
            Holds(focus, Stores, k) =>
                /\ lastOp'.key # k =>
                      /\ Holds(focus, Stores', k)
                      /\ Entry(focus, Stores', k) = Entry(focus, Stores, k)
                /\ (/\ lastOp'.op = "get"
                    /\ lastOp'.key = k
                    /\ Stale(Entry(focus, Stores, k), now)) =>
                      /\ lastOp'.ret = None
                      /\ ~Holds(focus, Stores', k)

\* C22 (stale entries are removed on read): on an InMemoryBackend or a
\* LocalDiskBackend an entry that is stored, expired or not, stays stored as
\* it is through the passing of time and through every get, set and delete of
\* a different key; the first get of its own key after its expiry answers
\* None and removes it.
StaleRemovedOnRead == [][StaleRemovedOnReadStep]_vars

\* C22 witness: a get has just removed the stale entry of its key and answered
\* None while the stale entry of another key is still stored.
StaleRemovedOnReadWitness ==
    /\ lastOp.op = "get"
    /\ lastOp.b \in {"mem", "disk"}
    /\ lastOp.held
    /\ lastOp.ret = None
    /\ ~Holds(lastOp.b, Stores, lastOp.key)
    /\ \E k \in Keys \ {lastOp.key} :
          /\ Holds(lastOp.b, Stores, k)
          /\ Stale(Entry(lastOp.b, Stores, k), now)

-----------------------------------------------------------------------------
(* Properties of the heuristics *)

\* C9 (compute_ttl range): for min_ttl <= max_ttl, any base_ttl and alpha, and
\* metadata whose access_count is absent or >= 0, with any perplexity and
\* time_variance (negative ones and a time_variance above 1 included),
\* compute_ttl returns an integer t with min_ttl <= t <= max_ttl.
ComputeTtlRange ==
    (heurOut.fn = "compute_ttl" /\ GetOr(heurIn.metadata.access_count, 0) >= 0) =>
        /\ ~heurOut.raised
        /\ heurOut.ttl \in Int
        /\ heurIn.range[1] <= heurOut.ttl
        /\ heurOut.ttl <= heurIn.range[2]

\* C9 witness: compute_ttl was called with a negative perplexity and a
\* time_variance above 1, its product fell below min_ttl, and it returned min_ttl.
ComputeTtlRangeWitness ==
    /\ heurOut.fn = "compute_ttl"
    /\ heurIn.metadata.perplexity = Some(-5)
    /\ heurIn.metadata.time_variance = Some(25)
    /\ heurIn.metadata.access_count = Some(2)
    /\ heurIn.base_ttl = DefaultBaseTtl
    /\ heurIn.range = <<4000, 5000>>
    /\ ~heurOut.raised
    /\ heurOut.ttl = 4000

\* C10 (no failure on out-of-domain input): called with a negative
\* access_count, compute_ttl and select_backend return a result and do not raise.
NegativeAccessCountReturns ==
    (/\ heurOut.fn \in {"compute_ttl", "select_backend"}
     /\ GetOr(heurIn.metadata.access_count, 0) < 0) => ~heurOut.raised

\* the ttl that select_backend compares with the threshold: compute_ttl(metadata)
\* with the default base_ttl, min_ttl, max_ttl and alpha
DefaultTtl(metadata) ==
    compute_ttl(metadata, DefaultBaseTtl, DefaultMinTtl, DefaultMaxTtl, DefaultAlpha)

\* C11 (hard override): a select_backend call made while LMCACHE_DISABLE_OFFLOAD
\* is "1" returns "gpu" for every metadata, empty or out of range, and does not
\* fail where compute_ttl(metadata) would.
SelectBackendOverride ==
    (heurOut.fn = "select_backend" /\ heurOut.env = "1") =>
        /\ heurOut.backend = "gpu"
        /\ ~heurOut.raised

\* C11 witness: under the override select_backend returned "gpu" for a
\* metadata on which compute_ttl raises.
SelectBackendOverrideWitness ==
    /\ heurOut.fn = "select_backend"
    /\ heurOut.env = "1"
    /\ heurIn.metadata.access_count = Some(-5)
    /\ DefaultTtl(heurIn.metadata).raised
    /\ heurOut.backend = "gpu"

\* C12 (rule and closed result set): a select_backend call made while the
\* override is inactive returns "gpu" when compute_ttl(metadata) < 10 and
\* "disk" otherwise; every call returns "gpu" or "disk".
SelectBackendRule ==
    heurOut.fn = "select_backend" =>
        /\ heurOut.backend \in {"gpu", "disk"}
        /\ heurOut.env # "1" =>
              LET t == DefaultTtl(heurIn.metadata)
              IN  heurOut.backend =
                    IF ~t.raised /\ t.val < HotThreshold THEN "gpu" ELSE "disk"

\* what lines 87-89 of select_backend do with metadata: the ValueError of
\* compute_ttl, or "gpu" below the threshold, or "disk"
TtlRule(metadata) ==
    LET t == DefaultTtl(metadata)
    IN  IF t.raised THEN "ValueError"
        ELSE IF t.val < HotThreshold THEN "gpu" ELSE "disk"

SelectBackendReadsFlagStep ==
    (heurOut'.fn = "select_backend" /\ env' = env) =>
        heurOut'.backend = IF env = "1" THEN "gpu" ELSE TtlRule(heurIn.metadata)

\* C20 (the flag is read at each decision): in every sequence of
\* select_backend calls and changes of LMCACHE_DISABLE_OFFLOAD, the result of
\* a call is decided by the value the flag has when the call is made: "gpu"
\* when it is "1", the ttl rule when it is anything else or unset, whatever it
\* was at earlier calls.
SelectBackendReadsFlag == [][SelectBackendReadsFlagStep]_vars

\* C20 witness: a call made under the flag "1" returned "gpu", the flag was
\* then cleared, and the next call returned "disk" by the ttl rule.
SelectBackendReadsFlagWitness ==
    /\ heurOut.fn = "select_backend"
    /\ heurOut.prevEnv = "1"
    /\ heurOut.prevBackend = "gpu"
    /\ heurOut.env \in {"unset", "0"}
    /\ heurOut.backend = "disk"

\* C21 (neutral factors): for metadata with access_count = 0, time_variance = 0
\* and a perplexity of 10 or below, and min_ttl <= base_ttl <= max_ttl,
\* compute_ttl returns exactly base_ttl, whatever alpha is.
NeutralFactors ==
    (/\ heurOut.fn = "compute_ttl"
     /\ heurIn.metadata.access_count = Some(0)
     /\ heurIn.metadata.time_variance = Some(0)
     /\ heurIn.metadata.perplexity # NoNum
     /\ heurIn.metadata.perplexity[1] <= PerplexityFloor
     /\ heurIn.range[1] <= heurIn.base_ttl
     /\ heurIn.base_ttl <= heurIn.range[2]) =>
        /\ ~heurOut.raised
        /\ heurOut.ttl = heurIn.base_ttl

\* C21 witness: compute_ttl was called with a perplexity below the floor, no
\* accesses, no variance and base_ttl 7 inside (5, 9), and returned 7.
NeutralFactorsWitness ==
    /\ heurOut.fn = "compute_ttl"
    /\ heurIn.metadata = [perplexity |-> Some(-5), access_count |-> Some(0),
                          time_variance |-> Some(0)]
    /\ heurIn.base_ttl = 7
    /\ heurIn.range = <<5, 9>>
    /\ heurOut.ttl = 7

-----------------------------------------------------------------------------
(* Properties of the reconciliation *)

\* the move calls of the last generate_and_manage call
Moves == SelectSeq(call.calls, LAMBDA c : c.fn = "move")

\* the last call reached the lookup and the lookup answered a dict
LookedUp == call.ran /\ call.lookup.kind = "dict"

\* the lookup of the last call reported the entry found in a tier
FoundInTier ==
    /\ LookedUp
    /\ call.lookup.found = "true"
    /\ call.lookup.has
    /\ call.lookup.inst # <<>>
    /\ TruthyStr(call.lookup.inst[1])

\* C5 (override short-circuit): a reconciliation that runs while
\* LMCACHE_DISABLE_OFFLOAD is "1" issues no move call.
NoMoveUnderOverride == (call.ran /\ call.env = "1") => Moves = <<>>

\* C6 (move on divergence): a generate_and_manage call makes at most one move
\* call; when the lookup reports the entry found in a tier that differs from
\* the preferred tier there is exactly one move call, from (lmcache_instance,
\* current tier) to (lmcache_instance, preferred tier), the reconciliation
\* returns the controller's result, and a move that fails is not called again;
\* when the two tiers are equal there is no move call.
MoveOnDivergence ==
    call.ran =>
        /\ Len(Moves) <= 1
        /\ FoundInTier =>
            LET current == call.lookup.inst[1]
                preferred == select_backend(call.scored, call.env)
            IN  IF current # preferred
                THEN /\ Len(Moves) = 1
                     /\ Moves[1].old = <<"lmcache_instance", current>>
                     /\ Moves[1].new = <<"lmcache_instance", preferred>>
                     /\ call.calls[Len(call.calls)].fn = "move"
                     /\ call.moveR = "ok" => call.reconRet = "move_result"
                     /\ call.moveR = "raise" => call.reconRet = None
                ELSE /\ Moves = <<>>
                     /\ call.reconRet = None

\* C6 witness: the entry was found on "remote", the preferred tier was "disk",
\* the one move call failed and was not repeated.
MoveOnDivergenceWitness ==
    /\ FoundInTier
    /\ call.lookup.inst[1] = "remote"
    /\ select_backend(call.scored, call.env) = "disk"
    /\ call.moveR = "raise"
    /\ Len(Moves) = 1
    /\ Moves[1].new = <<"lmcache_instance", "disk">>

\* C7 (no-op on unknown entry): when the lookup answers found = false, or
\* omits found, the call makes no move call and no call after the lookup, the
\* reconciliation returns None and nothing is raised.
NoOpWhenNotFound ==
    (LookedUp /\ call.lookup.found \in {"false", "absent"}) =>
        /\ Moves = <<>>
        /\ call.calls[Len(call.calls)].fn = "lookup"
        /\ call.reconRet = None
        /\ call.outcome = "returned"

\* C7 witness: the lookup answered found = false with the entry's tier given as
\* "gpu" while the preferred tier was "disk", and the call returned.
NoOpWhenNotFoundWitness ==
    /\ LookedUp
    /\ call.lookup.found = "false"
    /\ call.lookup.inst = <<"gpu">>
    /\ select_backend(call.scored, call.env) = "disk"
    /\ call.outcome = "returned"

\* C8 (failure isolation): once llm.generate has returned, generate_and_manage
\* returns the generated text whatever tokenize, lookup and move do (a raised
\* exception, a lookup answer that is no dict or has an empty instance list).
FailureIsolation ==
    (call.ran /\ call.genR = "ok") =>
        /\ call.outcome = "returned"
        /\ call.text = llm_generate(call.prompt)

\* C8 witness: the move call raised and the call returned the generated text.
FailureIsolationWitness ==
    /\ call.ran
    /\ call.genR = "ok"
    /\ call.moveR = "raise"
    /\ Len(Moves) = 1
    /\ call.outcome = "returned"
    /\ call.text = llm_generate(call.prompt)

\* the controller calls of the last generate_and_manage call, in order
ControllerCalls == [i \in 1..(Len(call.calls) - 1) |-> call.calls[i + 1].fn]

\* C17 (controller call ordering): the controller calls of one reconciliation
\* are an initial part of tokenize, lookup, move; lookup is called only after
\* tokenize succeeded and move only after lookup answered; when tokenize fails
\* neither lookup nor move is called, when lookup fails move is not called,
\* and when llm.generate fails the controller is not called at all.
ControllerCallOrder ==
    call.ran =>
        /\ call.genR # "ok" => call.calls \in {<<>>, <<Ctl("generate")>>}
        /\ call.genR = "ok" =>
              /\ ControllerCalls \in {<<"tokenize">>, <<"tokenize", "lookup">>,
                                       <<"tokenize", "lookup", "move">>}
              /\ Len(ControllerCalls) >= 2 => call.tokR = "ok"
              /\ Len(ControllerCalls) >= 3 => call.lookup.kind = "dict"
              /\ call.tokR = "raise" => ControllerCalls = <<"tokenize">>
              /\ call.lookup.kind \in {"raise", "notdict"} =>
                    ControllerCalls = <<"tokenize", "lookup">>

\* C17 witness: tokenize failed, no other controller call was made, and the
\* call returned the generated text.
ControllerCallOrderWitness ==
    /\ call.ran
    /\ call.genR = "ok"
    /\ call.tokR = "raise"
    /\ ControllerCalls = <<"tokenize">>
    /\ call.outcome = "returned"

\* the internal counter of a prompt
CounterOf(counts, prompt) == CountOf(counts, hash(prompt))

\* C18 (per-key access counter): the counter of every prompt equals the number
\* of generate_and_manage calls for that prompt that passed the LLM check (it
\* starts at 0, each such call adds 1, whether or not generation or
\* reconciliation fails, and nothing lowers it), and the access_count scored
\* in the n-th such call for a prompt is n, whatever access_count the caller
\* supplied.
AccessCounter ==
    /\ \A p \in Prompts : CounterOf(access_count, p) = passed[p]
    /\ (call.ran /\ call.outcome # "RuntimeError") =>
          call.scored.access_count = Some(passed[call.prompt])

ReconFrameStep ==
    (call' # call \/ access_count' # access_count) =>
        /\ llm' = llm
        /\ \A p \in Prompts \ {call'.prompt} :
              CounterOf(access_count', p) = CounterOf(access_count, p)
        /\ call'.given => call'.mdAfter = call'.mdIn

\* C19 (reconciliation frame): a generate_and_manage call for a prompt leaves
\* the LLM reference, the counters of all other prompts and the metadata
\* object the caller passed as they were.
ReconFrame == [][ReconFrameStep]_vars

\* C16 (parallel callers of InMemoryBackend): under every interleaving of
\* get, set and delete calls on one InMemoryBackend no get raises KeyError, and
\* the deletion of a stale entry by a get never removes an entry that is not
\* expired.
AtomicOperations ==
    \A th \in Threads :
        /\ threads[th].ret # "KeyError"
        /\ ~threads[th].removedFresh

\* C23 (generation precedes reconciliation): in a generate_and_manage call
\* that passed the LLM check, llm.generate is the first call made and every
\* controller call comes after it; when llm.generate raises, the error
\* reaches the caller, no text is returned and no controller call is made.
GenerationFirst ==
    (call.ran /\ call.outcome # "RuntimeError") =>
        /\ call.calls # <<>>
        /\ call.calls[1].fn = "generate"
        /\ \A i \in 2..Len(call.calls) : call.calls[i].fn \in {"tokenize", "lookup", "move"}
        /\ call.genR = "raise" =>
              /\ call.outcome = "GenerateError"
              /\ call.calls = <<Ctl("generate")>>
              /\ call.text = <<>>

\* C23 witness: llm.generate raised, the call ended with that error and made
\* no controller call, and the access was counted.
GenerationFirstWitness ==
    /\ call.ran
    /\ call.genR = "raise"
    /\ call.outcome = "GenerateError"
    /\ call.calls = <<Ctl("generate")>>
    /\ CounterOf(access_count, call.prompt) >= 1

NoLlmStep ==
    call' # call =>
        IF llm = None
        THEN /\ call'.outcome = "RuntimeError"
             /\ access_count' = access_count
             /\ call'.calls = <<>>
             /\ call'.mdAfter = call'.mdIn
             /\ call'.text = <<>>
        ELSE call'.outcome # "RuntimeError"

\* C24 (no LLM set): a generate_and_manage call made while llm is None raises
\* RuntimeError, leaves every access counter and the caller's metadata as
\* they were and makes no call to the LLM or the controller; a call made once
\* set_llm has set the LLM does not raise RuntimeError.
NoLlm == [][NoLlmStep]_vars

\* C24 witness: a call with caller-supplied metadata raised RuntimeError, no
\* counter exists and the metadata is as the caller passed it.
NoLlmWitness ==
    /\ call.ran
    /\ call.outcome = "RuntimeError"
    /\ call.given
    /\ call.mdAfter = call.mdIn
    /\ call.calls = <<>>
    /\ access_count = <<>>

\* the lookup of the last call reported found = true and no current tier: the
\* field lmcache_default_instance is missing, or its first element is None or
\* the empty string
FoundWithoutTier ==
    /\ LookedUp
    /\ call.lookup.found = "true"
    /\ \/ ~call.lookup.has
       \/ call.lookup.inst # <<>> /\ call.lookup.inst[1] \in {None, ""}

\* C25 (found without a tier): when the lookup reports found = true and gives
\* no current tier, the call makes no move call, the lookup is its last
\* controller call, and it returns the generated text.
NoMoveWithoutTier ==
    FoundWithoutTier =>
        /\ Moves = <<>>
        /\ call.calls[Len(call.calls)].fn = "lookup"
        /\ call.reconRet = None
        /\ call.outcome = "returned"

\* C25 witness: the lookup answered found = true with the empty string as the
\* first element while the preferred tier was "disk", and the call returned.
NoMoveWithoutTierWitness ==
    /\ FoundWithoutTier
    /\ call.lookup.has
    /\ call.lookup.inst = <<"">>
    /\ select_backend(call.scored, call.env) = "disk"
    /\ call.outcome = "returned"

\* C27 (parallel callers of LocalDiskBackend): under every interleaving of
\* get, set and delete calls of two callers on one key, no get and no delete
\* raises: the file is never missing at open or remove after the exists test
\* found it, and a get never loads a file that a set has truncated and not
\* yet written.
DiskAtomicOperations ==
    \A th \in Threads : threads[th].ret \notin {"FileNotFoundError", "EOFError"}

-----------------------------------------------------------------------------
(* Properties of the controller process manager *)

\* the step is a start_controller or stop_controller call (and not the exit of
\* a process)
ControllerCall == ctlOp' # ctlOp \/ PROC' # PROC \/ spawns' # spawns

\* every process that is alive and was not killed by stop_controller is _PROC
AtMostOneTracked == alive \ killed \subseteq {PROC}

StartControllerStep ==
    (ControllerCall /\ ctlOp'.op = "start") =>
        IF controller_running
        THEN /\ ~ctlOp'.spawned
             /\ ~ctlOp'.raised
             /\ ctlOp'.ret = PROC
             /\ UNCHANGED <<PROC, alive, spawns>>
        ELSE /\ ctlOp'.spawned # ctlOp'.raised
             /\ ctlOp'.raised => UNCHANGED <<PROC, alive, spawns>>
             /\ ctlOp'.spawned =>
                   /\ PROC' \notin 0..spawns
                   /\ ctlOp'.ret = PROC'
                   /\ alive' = alive \cup {PROC'}
                   /\ spawns' = spawns + 1

\* C28 (start_controller is idempotent while the controller is alive): a
\* start_controller call made while the tracked process is running starts
\* nothing and returns the pid of that process; a call made when nothing is
\* tracked or the tracked process has exited starts one new process and
\* tracks it; so at any time the only process that is alive and was not sent
\* kill() by stop_controller is the tracked one.
StartControllerIdempotent ==
    [][StartControllerStep]_vars /\ [](PROC \in 0..spawns /\ AtMostOneTracked)

\* C28 witness: after a stop and a second start, a start_controller call found
\* the tracked process running, started nothing and returned its pid.
StartControllerIdempotentWitness ==
    /\ ctlOp.op = "start"
    /\ ~ctlOp.spawned
    /\ ~ctlOp.raised
    /\ controller_running
    /\ ctlOp.ret = PROC
    /\ PROC = 2
    /\ spawns = 2

StopControllerStep ==
    /\ (ControllerCall /\ ctlOp'.op = "stop") =>
          /\ PROC' = 0
          /\ ~(PROC' # 0 /\ PROC' \in alive')
          /\ spawns' = spawns
          /\ PROC = 0 => (alive' = alive /\ ctlOp'.how = "none")
          /\ (PROC # 0 /\ PROC \notin alive) => (alive' = alive /\ ctlOp'.how = "exited")
          /\ PROC \in alive =>
                /\ ctlOp'.how \in {"terminate", "kill"}
                /\ alive' \subseteq alive
                /\ alive \ alive' \subseteq {PROC}
                /\ ctlOp'.how = "terminate" => PROC \notin alive'
    /\ (ControllerCall /\ ctlOp'.op = "start" /\ PROC = 0 /\ ~ctlOp'.raised) =>
          /\ ctlOp'.spawned
          /\ PROC' = spawns + 1

\* C29 (stop_controller): when a stop_controller call returns, nothing is
\* tracked and controller_running() is False, whether the process ended on
\* terminate, was killed after the timeout or had exited before; with nothing
\* tracked the call changes nothing; a start_controller call made while
\* nothing is tracked starts a new process.
StopControllerClears == [][StopControllerStep]_vars

\* C29 witness: stop_controller had to kill the process, which is still there
\* as the call returns; nothing is tracked and controller_running() is False.
StopControllerClearsWitness ==
    /\ ctlOp.op = "stop"
    /\ ctlOp.how = "kill"
    /\ PROC = 0
    /\ alive # {}
    /\ ~controller_running

-----------------------------------------------------------------------------
(* Properties of RemoteTTLStore *)

\* the tick at which the entry of the last put is t + ttl seconds old
ExpiryTick(lp) == lp.at + lp.ttl * TicksPerSecond

FreshnessStep ==
    /\ (ttlOp' # ttlOp /\ ttlOp'.op = "get") =>
          LET lp == lastPut[ttlOp'.key]
              ret == ttlOp'.ret
          IN  /\ UNCHANGED <<idx, blobs>>
              /\ ret # <<>> =>
                    /\ lp.put
                    /\ clock < ExpiryTick(lp)
                    /\ ret[1].payload.data = lp.payload.data
                    /\ ret[1].expires_at = (lp.at \div TicksPerSecond) + lp.ttl
              /\ ~lp.put => ret = <<>>
              /\ (lp.put /\ clock >= ExpiryTick(lp)) => ret = <<>>
    /\ (ttlOp'.op = "put" /\ lastPut' # lastPut) =>
          LET k == ttlOp'.key
              lp == lastPut'[k]
              key == sha256(k)
          IN  /\ blobs'[blob_path(key)] = <<write_blob(lp.payload)>>
              /\ json_loads(idx'[idx_key(key)][1]).expires_at
                    = (clock \div TicksPerSecond) + lp.ttl
              /\ \A l \in LogicalKeys \ {k} :
                    /\ idx'[idx_key(sha256(l))] = idx[idx_key(sha256(l))]
                    /\ blobs'[blob_path(sha256(l))] = blobs[blob_path(sha256(l))]

\* C30 (RemoteTTLStore freshness): get_if_fresh(k) returns an entry only if k
\* was put, not deleted since, and now < t + ttl for the last put(k, p, ttl)
\* at time t, and then it is the payload and the expiry of that last put; it
\* returns None for a key never put, after delete(k), and at or after
\* t + ttl; put replaces the blob and the expiry of its key and of no other;
\* get_if_fresh leaves the index and the blobs as they are.
Freshness == [][FreshnessStep]_vars

\* C30 witness: a put made half a second after the start replaced an earlier
\* entry of the key, and get_if_fresh returned the entry, with the payload of
\* that put.
FreshnessWitness ==
    /\ ttlOp.op = "get"
    /\ ttlOp.ret # <<>>
    /\ lastPut[ttlOp.key].replaced
    /\ lastPut[ttlOp.key].at = 1
    /\ clock = 1
    /\ ttlOp.ret[1].payload.data = "nul"

\* C31 (RemoteTTLStore payload round trip): when get_if_fresh(k) returns the
\* entry of the last put(k, p, ttl), its payload equals p and is of the kind
\* that was stored, str for a str and bytes for bytes, also for bytes that
\* are valid UTF-8 without a NUL.
PayloadRoundTrip ==
    (ttlOp.op = "get" /\ ttlOp.ret # <<>>) =>
        ttlOp.ret[1].payload = lastPut[ttlOp.key].payload

====
